---- MODULE Spec2Model ----
(***************************************************************************)
(* A model of GazeEstimationCpp/main.cpp: the single-camera driver         *)
(* run_onecamera (calibrate, apply the fitted values, evaluate on the test *)
(* samples) and the helpers it is built from.                              *)
(*                                                                         *)
(* Numbers.  A double is a record [n, d]: the rational n/d in lowest terms *)
(* with d > 0, or one of the IEEE special values, d = 0:  1/0 is +inf,     *)
(* -1/0 is -inf and 0/0 is NaN.  Signed zeros are not distinguished and    *)
(* rounding is not modelled.  An angle is held as its number of degrees    *)
(* (deg_to_rad multiplies by pi / 180, which no rational holds), every     *)
(* other constant of the driver with its exact decimal value.              *)
(***************************************************************************)
EXTENDS Integers, Sequences, FiniteSets, TLC

VARIABLES
    pc,                 \* position in run_onecamera
    parameters,         \* EyeAndCameraParameters parameters (line 84)
    initial_values,     \* line 139
    bounds,             \* line 146
    engine,             \* state of the search inside calibration.calibrate
    calibration_result, \* line 155
    tmp,                \* the std::vector<double*> of vecvec_to_pointer_pointer
    test_data,          \* line 75
    It,                 \* the loop iterator of line 179, as an index
    errors_pixels,      \* line 176
    errors_cm,          \* line 177
    estimates,          \* line 178
    estimate_calls,     \* history: the arguments of every estimate call
    averages,           \* lines 212-213
    app,                \* one call of six_variable_calibration_applicator
    poi                 \* one call of calculate_point_of_interest

vars == <<pc, parameters, initial_values, bounds, engine, calibration_result,
          tmp, test_data, It, errors_pixels, errors_cm, estimates,
          estimate_calls, averages, app, poi>>

----------------------------------------------------------------------------
(* Bounds of the model                                                     *)

\* largest absolute coordinate of the inputs of calculate_point_of_interest
MaxCoord == 2

\* the iteration budget of the calibration search
MaxIterations == 1

\* the number of test samples read from input_test.txt
MaxSamples == 2

\* by how much the number of rows of a variable array handed to the
\* applicator, and the length of one of its rows, differ from what the
\* applicator reads
MaxShapeDelta == 1

----------------------------------------------------------------------------
(* double arithmetic                                                       *)

Abs(x) == IF x < 0 THEN -x ELSE x

Sgn(x) == IF x < 0 THEN -1 ELSE IF x = 0 THEN 0 ELSE 1

RECURSIVE GCD(_, _)
GCD(a, b) == IF b = 0 THEN a ELSE GCD(b, a % b)

NaN == [n |-> 0, d |-> 0]

Inf(s) == [n |-> s, d |-> 0]

Norm(n, d) ==
    LET g == GCD(Abs(n), Abs(d))
        s == Sgn(d)
    IN  [n |-> (s * n) \div g, d |-> (s * d) \div g]

Num(i) == [n |-> i, d |-> 1]

IsNaN(x) == x.d = 0 /\ x.n = 0

IsInf(x) == x.d = 0 /\ x.n # 0

IsFinite(x) == x.d # 0

Neg(x) == [n |-> -x.n, d |-> x.d]

Add(a, b) ==
    IF IsNaN(a) \/ IsNaN(b) THEN NaN
    ELSE IF IsInf(a) /\ IsInf(b) THEN (IF a.n = b.n THEN a ELSE NaN)
    ELSE IF IsInf(a) THEN a
    ELSE IF IsInf(b) THEN b
    ELSE LET g == GCD(a.d, b.d)
         IN  Norm(a.n * (b.d \div g) + b.n * (a.d \div g), (a.d \div g) * b.d)

Sub(a, b) == Add(a, Neg(b))

Mul(a, b) ==
    IF IsNaN(a) \/ IsNaN(b) THEN NaN
    ELSE IF IsInf(a) \/ IsInf(b)
         THEN (IF a.n = 0 \/ b.n = 0 THEN NaN ELSE Inf(Sgn(a.n) * Sgn(b.n)))
    ELSE LET g1 == GCD(Abs(a.n), b.d)
             g2 == GCD(Abs(b.n), a.d)
         IN  Norm((a.n \div g1) * (b.n \div g2), (a.d \div g2) * (b.d \div g1))

Div(a, b) ==
    IF IsNaN(a) \/ IsNaN(b) THEN NaN
    ELSE IF IsInf(a) /\ IsInf(b) THEN NaN
    ELSE IF IsInf(a) THEN Inf(IF b.n < 0 THEN -a.n ELSE a.n)
    ELSE IF IsInf(b) THEN Num(0)
    ELSE IF b.n = 0 THEN (IF a.n = 0 THEN NaN ELSE Inf(Sgn(a.n)))
    ELSE Norm(a.n * b.d, a.d * b.n)

Less(a, b) == IsFinite(a) /\ IsFinite(b) /\ a.n * b.d < b.n * a.d

Leq(a, b) == IsFinite(a) /\ IsFinite(b) /\ a.n * b.d <= b.n * a.d

----------------------------------------------------------------------------
(* Vec3 and Vec2: sequences of doubles, indexed from 1                     *)

make_vec3(x, y, z) == <<x, y, z>>

make_vec2(x, y) == <<x, y>>

VecAdd(a, b) == [i \in DOMAIN a |-> Add(a[i], b[i])]

VecSub(a, b) == [i \in DOMAIN a |-> Sub(a[i], b[i])]

VecScale(k, a) == [i \in DOMAIN a |-> Mul(k, a[i])]

calculate_point_of_interest(cornea_center, visual_axis_unit_vector, z_shift) ==
    LET kg == Div(Sub(z_shift, cornea_center[3]), visual_axis_unit_vector[3])
    IN  VecAdd(cornea_center, VecScale(kg, visual_axis_unit_vector))

----------------------------------------------------------------------------
(* PinholeCameraModel and EyeAndCameraParameters                           *)

\* The rotation matrix composed from the three angles.  Its entries are
\* sines and cosines of the angles; it is represented by the angles it was
\* composed from, which determine it.
rotation_matrix_of(x, y, z) == [rx |-> x, ry |-> y, rz |-> z]

set_camera_angles(camera, x, y, z) ==
    [camera EXCEPT !.angle_x = x, !.angle_y = y, !.angle_z = z,
                   !.rotation = rotation_matrix_of(x, y, z)]

set_camera_angle_y(camera, y) ==
    set_camera_angles(camera, camera.angle_x, y, camera.angle_z)

set_camera_angle_z(camera, z) ==
    set_camera_angles(camera, camera.angle_x, camera.angle_y, z)

camera_angle_y(camera) == camera.angle_y

camera_angle_z(camera) == camera.angle_z

\* A default-constructed camera with the intrinsics and the position given.
PinholeCameraModel(ppx, ppy, psx, psy, efl, position) ==
    [principal_point_x |-> ppx, principal_point_y |-> ppy,
     pixel_size_cm_x |-> psx, pixel_size_cm_y |-> psy,
     effective_focal_length_cm |-> efl, position |-> position,
     angle_x |-> Num(0), angle_y |-> Num(0), angle_z |-> Num(0),
     rotation |-> rotation_matrix_of(Num(0), Num(0), Num(0))]

\* run_onecamera, lines 94-95
actual_camera_position == make_vec3(Norm(245, 10), Num(-35), Num(10))

wcs_offset == VecScale(Num(-1), make_vec3(Norm(245, 10), Num(-35), Num(10)))

\* run_onecamera, lines 98-105
camera ==
    set_camera_angles(
        PinholeCameraModel(Norm(2995, 10), Norm(3995, 10),
                           Norm(24, 10000000), Norm(24, 10000000),
                           Norm(119144, 10000000),
                           VecAdd(actual_camera_position, wcs_offset)),
        Num(8), Num(0), Num(0))

\* run_onecamera, lines 108-110
lights ==
    << VecAdd(VecAdd(actual_camera_position, make_vec3(Num(13), Num(0), Num(0))),
              wcs_offset),
       VecAdd(VecAdd(actual_camera_position, make_vec3(Num(-13), Num(0), Num(0))),
              wcs_offset) >>

\* The bundle run_onecamera builds in lines 84-113.
parameters_onecamera ==
    [alpha |-> Num(-5), beta |-> Norm(15, 10), R |-> Norm(78, 100),
     K |-> Norm(42, 100), n1 |-> Norm(13375, 10000), n2 |-> Num(1),
     D |-> Norm(53, 100), cameras |-> <<camera>>, light_positions |-> lights,
     distance_to_camera_estimate |-> Num(10)]

----------------------------------------------------------------------------
(* The variables of the optimization backend                               *)

\* initial_values_of without its last row
initial_values_of_five(params) ==
    << <<params.alpha>>, <<params.beta>>, <<params.R>>, <<params.K>>,
       <<camera_angle_y(params.cameras[1])>> >>

\* run_onecamera, lines 139-145: one row of one scalar per variable.
initial_values_of(params) ==
    << <<params.alpha>>, <<params.beta>>, <<params.R>>, <<params.K>>,
       <<camera_angle_y(params.cameras[1])>>,
       <<camera_angle_z(params.cameras[1])>> >>

\* run_onecamera, lines 146-153: one inclusive [low, high] pair per scalar.
make_pair(low, high) == [first |-> low, second |-> high]

\* bounds_onecamera with the pair of R written high first
bounds_onecamera_swapped ==
    << <<make_pair(Num(-10), Num(10))>>,
       <<make_pair(Num(-5), Num(5))>>,
       <<make_pair(Num(2), Norm(3, 10))>>,
       <<make_pair(Norm(2, 10), Norm(15, 10))>>,
       <<make_pair(Num(-8), Num(8))>>,
       <<make_pair(Num(-5), Num(5))>> >>

bounds_onecamera ==
    << <<make_pair(Num(-10), Num(10))>>,
       <<make_pair(Num(-5), Num(5))>>,
       <<make_pair(Norm(3, 10), Num(2))>>,
       <<make_pair(Norm(2, 10), Norm(15, 10))>>,
       <<make_pair(Num(-8), Num(8))>>,
       <<make_pair(Num(-5), Num(5))>> >>

\* What a read of a double outside live storage may yield: any bit pattern,
\* represented by a number that occurs nowhere else.
GarbageValues == {Norm(-987654, 1000)}

\* A double const* const*: the rows of the array it points to (a row is the
\* storage its row pointer points to), whether that array is live, and
\* whether building it allocated memory.
PointerArray(rows, live) == [rows |-> rows, live |-> live, allocated |-> FALSE]

\* What a read of variables[i][0] .. may see of row i (indexed from 1).
RowViews(p, i) ==
    LET there == i <= Len(p.rows) /\ Len(p.rows[i]) >= 1
    IN  IF there /\ p.live THEN {p.rows[i]}
        ELSE (IF there THEN {p.rows[i]} ELSE {})
             \cup {<<g>> : g \in GarbageValues}

\* The arrays of six rows that six reads variables[0][0] .. variables[5][0]
\* through p may see.
Views(p) ==
    { <<v1, v2, v3, v4, v5, v6>> :
        v1 \in RowViews(p, 1), v2 \in RowViews(p, 2), v3 \in RowViews(p, 3),
        v4 \in RowViews(p, 4), v5 \in RowViews(p, 5), v6 \in RowViews(p, 6) }

\* Some read through p is outside live storage: the read may also fault.
MayFault(p) ==
    ~p.live \/ Len(p.rows) < 6 \/ \E i \in 1..6 : i <= Len(p.rows) /\ Len(p.rows[i]) < 1

\* the applicator setting the two angles with set_camera_angles and a zero
\* x angle
six_variable_calibration_applicator_zero_x(params, variables) ==
    [params EXCEPT
        !.alpha = variables[1][1],
        !.beta = variables[2][1],
        !.R = variables[3][1],
        !.K = variables[4][1],
        !.cameras[1] = set_camera_angles(@, Num(0), variables[5][1],
                                         variables[6][1])]

\* the applicator with the rows of the two camera angles exchanged
six_variable_calibration_applicator_swapped(params, variables) ==
    [params EXCEPT
        !.alpha = variables[1][1],
        !.beta = variables[2][1],
        !.R = variables[3][1],
        !.K = variables[4][1],
        !.cameras[1] = set_camera_angle_z(
                           set_camera_angle_y(@, variables[6][1]),
                           variables[5][1])]

six_variable_calibration_applicator(params, variables) ==
    [params EXCEPT
        !.alpha = variables[1][1],
        !.beta = variables[2][1],
        !.R = variables[3][1],
        !.K = variables[4][1],
        !.cameras[1] = set_camera_angle_z(
                           set_camera_angle_y(@, variables[5][1]),
                           variables[6][1])]

----------------------------------------------------------------------------
(* The parts of the state a specification does not use                     *)

MainIdle ==
    /\ pc = "idle"
    /\ parameters = parameters_onecamera
    /\ initial_values = <<>>
    /\ bounds = <<>>
    /\ engine = [iterations |-> 0]
    /\ calibration_result = <<>>
    /\ tmp = PointerArray(<<>>, FALSE)
    /\ test_data = <<>>
    /\ It = 0
    /\ errors_pixels = <<>>
    /\ errors_cm = <<>>
    /\ estimates = <<>>
    /\ estimate_calls = <<>>
    /\ averages = <<>>

mainvars == <<pc, parameters, initial_values, bounds, engine,
              calibration_result, tmp, test_data, It, errors_pixels,
              errors_cm, estimates, estimate_calls, averages>>

AppIdle == [pc |-> "idle"]

PoiIdle == [pc |-> "idle"]

----------------------------------------------------------------------------
(* calculate_point_of_interest as a function of its inputs                 *)

Coords == {Num(i) : i \in -MaxCoord..MaxCoord}

PoiInit ==
    /\ MainIdle
    /\ app = AppIdle
    /\ \E c \in Coords \X Coords \X Coords, v \in Coords \X Coords \X Coords,
          z \in Coords :
          poi = [pc |-> "call", cornea_center |-> c,
                 visual_axis_unit_vector |-> v, z_shift |-> z]

\* lines 26-30: the one return statement yields a Vec3, whatever the inputs
PoiCall ==
    /\ poi.pc = "call"
    /\ poi' = [pc |-> "returned", cornea_center |-> poi.cornea_center,
               visual_axis_unit_vector |-> poi.visual_axis_unit_vector,
               z_shift |-> poi.z_shift,
               outcome |-> "point",
               result |-> calculate_point_of_interest(
                              poi.cornea_center,
                              poi.visual_axis_unit_vector, poi.z_shift)]
    /\ UNCHANGED <<mainvars, app>>

PoiNext == PoiCall

SpecPoi == PoiInit /\ [][PoiNext]_vars

----------------------------------------------------------------------------
(* six_variable_calibration_applicator as a function of its inputs         *)

second_camera ==
    set_camera_angles(
        PinholeCameraModel(Norm(2995, 10), Norm(3995, 10),
                           Norm(24, 10000000), Norm(24, 10000000),
                           Norm(119144, 10000000),
                           make_vec3(Num(20), Num(0), Num(0))),
        Num(-4), Num(9), Num(1))

AppBundles ==
    { parameters_onecamera,
      [parameters_onecamera EXCEPT
          !.cameras = <<set_camera_angles(camera, Num(8), Num(3), Num(-2)),
                        second_camera>>],
      [parameters_onecamera EXCEPT !.alpha = Num(2), !.beta = Num(2),
                                   !.cameras = <<second_camera>>] }

\* every vector with each scalar at one end of its interval of bounds_onecamera
CornerVectors ==
    { [i \in 1..6 |-> <<IF i \in S THEN bounds_onecamera[i][1].first
                        ELSE bounds_onecamera[i][1].second>>] :
      S \in SUBSET (1..6) }

\* rows resized to n rows, its third row to m scalars
Reshape(rows, n, m) ==
    [i \in 1..n |->
        IF i > Len(rows) THEN <<Num(0)>>
        ELSE IF i = 3 THEN [j \in 1..m |-> IF j = 1 THEN rows[i][1] ELSE Num(0)]
        ELSE rows[i]]

AppInit ==
    /\ MainIdle
    /\ poi = PoiIdle
    /\ \E p \in AppBundles :
       \E rows \in CornerVectors \cup {initial_values_of(p)} :
       \E n \in (6 - MaxShapeDelta)..(6 + MaxShapeDelta),
          m \in (1 - MaxShapeDelta)..(1 + MaxShapeDelta) :
          /\ m >= 0
          /\ app = [pc |-> "call", base |-> p, params |-> p,
                    variables |-> PointerArray(Reshape(rows, n, m), TRUE)]

\* lines 54-63: the bundle is passed and returned by value; nothing in the
\* function looks at the number of rows or at a row's length
AppCall ==
    /\ app.pc = "call"
    /\ \E v \in Views(app.variables) :
          app' = [pc |-> "returned", base |-> app.base, params |-> app.params,
                  variables |-> app.variables, read |-> v,
                  outcome |-> "applied",
                  result |-> six_variable_calibration_applicator(app.params, v)]
    /\ UNCHANGED <<mainvars, poi>>

\* a read outside live storage may end the process
AppFault ==
    /\ app.pc = "call"
    /\ MayFault(app.variables)
    /\ app' = [pc |-> "fault", base |-> app.base, params |-> app.params,
               variables |-> app.variables]
    /\ UNCHANGED <<mainvars, poi>>

AppNext == AppCall \/ AppFault

SpecApplicator == AppInit /\ [][AppNext]_vars

----------------------------------------------------------------------------
(* run_onecamera                                                           *)

\* lines 116-124
screen_pixel_size_x == Div(Norm(487, 10), Num(1680))

screen_pixel_size_y == Div(Norm(274, 10), Num(1050))

z_shift == Neg(actual_camera_position[3])

\* lines 32-35
estimate_screen_point(p, pixel_size_x, pixel_size_y) ==
    make_vec2(Div(p[1], pixel_size_x), Div(Neg(p[2]), pixel_size_y))

\* Utils.hpp: the Euclidean norm.  A square root is no rational: a length is
\* held as its square, which is finite, infinite or NaN exactly when the
\* length is.
length(v) == Add(Mul(v[1], v[1]), Mul(v[2], v[2]))

RECURSIVE accumulate(_, _)
accumulate(seq, init) ==
    IF seq = <<>> THEN init ELSE accumulate(Tail(seq), Add(init, Head(seq)))

\* The i-th record of input_test.txt: the observation (held as its number)
\* and the true point of gaze in pixels.
Sample(i) == [first |-> i, second |-> make_vec2(Num(168 * i), Num(105 * i))]

\* What gazeEstimation.estimate may return: a gaze that meets the screen
\* plane at the world origin, and a gaze parallel to the screen plane.
EstimateResults ==
    { [center_of_cornea |-> make_vec3(Norm(-245, 10), Num(35), Num(40)),
       visual_axis |-> make_vec3(Num(0), Num(0), Num(-1))],
      [center_of_cornea |-> make_vec3(Norm(-245, 10), Num(35), Num(40)),
       visual_axis |-> make_vec3(Num(1), Num(0), Num(0))] }

\* Bounds arrays a caller may supply: those of run_onecamera, the same with
\* every interval halved, and the same with the first interval moved away
\* from the initial value.
BoundsChoices ==
    { bounds_onecamera,
      [i \in 1..6 |->
          <<make_pair(Div(bounds_onecamera[i][1].first, Num(2)),
                      Div(bounds_onecamera[i][1].second, Num(2)))>>],
      [bounds_onecamera EXCEPT ![1] = <<make_pair(Num(0), Num(10))>>] }

Init ==
    /\ pc = "calibrate"
    /\ parameters = parameters_onecamera
    /\ initial_values = initial_values_of(parameters_onecamera)
    /\ bounds \in BoundsChoices
    /\ engine = [iterations |-> 0]
    /\ calibration_result = <<>>
    /\ tmp = PointerArray(<<>>, FALSE)
    /\ test_data = [i \in 1..MaxSamples |-> Sample(i)]
    /\ It = 1
    /\ errors_pixels = <<>>
    /\ errors_cm = <<>>
    /\ estimates = <<>>
    /\ estimate_calls = <<>>
    /\ averages = <<>>
    /\ app = AppIdle
    /\ poi = PoiIdle

(* calibration.calibrate, GenericCalibration.hpp: a bounded search that     *)
(* starts from the initial values, keeps every candidate inside the bounds  *)
(* by clamping it, stops when the tolerance is met or the iteration budget  *)
(* is spent, and returns the best candidate.                                *)

Clamp(x, pair) ==
    IF Less(x, pair.first) THEN pair.first
    ELSE IF Less(pair.second, x) THEN pair.second
    ELSE x

ClampAll(values, bnds) ==
    [i \in DOMAIN values |->
        [j \in DOMAIN values[i] |-> Clamp(values[i][j], bnds[i][j])]]

\* Where an unconstrained step may take a scalar: below its interval and
\* above it (a step that stays inside needs no clamping).
Proposals(pair) == { Sub(pair.first, Num(1)), Add(pair.second, Num(1)) }

CalibrateStart ==
    /\ pc = "calibrate"
    /\ engine' = [iterations |-> 0, converged |-> FALSE,
                  best |-> ClampAll(initial_values, bounds)]
    /\ pc' = "searching"
    /\ UNCHANGED <<parameters, initial_values, bounds, calibration_result, tmp,
                   test_data, It, errors_pixels, errors_cm, estimates,
                   estimate_calls, averages, app, poi>>

\* one iteration: a candidate that differs from the best in one scalar is
\* evaluated, and replaces the best when its cost is lower
SearchStep ==
    /\ pc = "searching"
    /\ ~engine.converged
    /\ engine.iterations < MaxIterations
    /\ \E i \in DOMAIN engine.best, improves \in BOOLEAN :
       \E x \in Proposals(bounds[i][1]) :
          LET candidate ==
                ClampAll([engine.best EXCEPT ![i][1] = x], bounds)
          IN  engine' = [iterations |-> engine.iterations + 1,
                         converged |-> FALSE,
                         best |-> IF improves THEN candidate ELSE engine.best]
    /\ UNCHANGED <<pc, parameters, initial_values, bounds, calibration_result,
                   tmp, test_data, It, errors_pixels, errors_cm, estimates,
                   estimate_calls, averages, app, poi>>

\* the improvement of the cost falls below the tolerance
SearchConverges ==
    /\ pc = "searching"
    /\ ~engine.converged
    /\ engine' = [engine EXCEPT !.converged = TRUE]
    /\ UNCHANGED <<pc, parameters, initial_values, bounds, calibration_result,
                   tmp, test_data, It, errors_pixels, errors_cm, estimates,
                   estimate_calls, averages, app, poi>>

\* lines 155-160: the value of the call is assigned to calibration_result.
\* Of the search, only how it ended is kept.
CalibrateReturn ==
    /\ pc = "searching"
    /\ engine.converged \/ engine.iterations >= MaxIterations
    /\ calibration_result' = engine.best
    /\ engine' = [converged |-> engine.converged]
    /\ pc' = "calibrated"
    /\ UNCHANGED <<parameters, initial_values, bounds, tmp, test_data,
                   It, errors_pixels, errors_cm, estimates, estimate_calls,
                   averages, app, poi>>

\* line 155: what the caller receives about how the search ended.
\* calibration_result is handed to vecvec_to_pointer_pointer, which takes a
\* std::vector<std::vector<double>>&: it holds the fitted values and no status.
calibration_status == "none"

\* lines 44-51: tmp is filled with one row pointer per row of a (push_back
\* allocates its storage), and the address of its first element is returned;
\* tmp is a local, destroyed when the function returns.
vecvec_to_pointer_pointer(a) ==
    [rows |-> [i \in 1..Len(a) |-> a[i]], live |-> FALSE,
     allocated |-> Len(a) > 0]

\* line 161, the argument of the applicator
Adapt ==
    /\ pc = "calibrated"
    /\ tmp' = vecvec_to_pointer_pointer(calibration_result)
    /\ pc' = "adapted"
    /\ UNCHANGED <<parameters, initial_values, bounds, engine,
                   calibration_result, test_data, It, errors_pixels, errors_cm,
                   estimates, estimate_calls, averages, app, poi>>

\* line 161, the call and the assignment
ApplyFitted ==
    /\ pc = "adapted"
    /\ \E v \in Views(tmp) :
          parameters' = six_variable_calibration_applicator(parameters, v)
    /\ pc' = "estimate"
    /\ UNCHANGED <<initial_values, bounds, engine, calibration_result, tmp,
                   test_data, It, errors_pixels, errors_cm, estimates,
                   estimate_calls, averages, app, poi>>

\* line 161: a read through a dangling pointer may end the process
ApplyFault ==
    /\ pc = "adapted"
    /\ MayFault(tmp)
    /\ pc' = "fault"
    /\ UNCHANGED <<parameters, initial_values, bounds, engine,
                   calibration_result, tmp, test_data, It, errors_pixels,
                   errors_cm, estimates, estimate_calls, averages, app, poi>>

\* lines 179-200, one pass of the loop body
EstimateSample ==
    /\ pc = "estimate"
    /\ It <= Len(test_data)
    /\ \E result \in EstimateResults :
          LET data_in == test_data[It].first
              true_pog == test_data[It].second
              poi_gecs == calculate_point_of_interest(
                              result.center_of_cornea, result.visual_axis,
                              z_shift)
              poi_wcs == VecSub(poi_gecs, wcs_offset)
              pos_on_screen == estimate_screen_point(
                                   poi_wcs, screen_pixel_size_x,
                                   screen_pixel_size_y)
              delta_pixels == VecSub(pos_on_screen, true_pog)
              delta_cm ==
                  VecSub(make_vec2(Mul(true_pog[1], screen_pixel_size_x),
                                   Mul(Neg(true_pog[2]), screen_pixel_size_y)),
                         make_vec2(poi_wcs[1], poi_wcs[2]))
          IN  /\ estimates' = Append(estimates, pos_on_screen)
              /\ errors_pixels' = Append(errors_pixels, length(delta_pixels))
              /\ errors_cm' = Append(errors_cm, length(delta_cm))
              /\ estimate_calls' =
                    Append(estimate_calls,
                           [data_in |-> data_in, parameters |-> parameters,
                            result |-> result])
    /\ It' = It + 1
    /\ UNCHANGED <<pc, parameters, initial_values, bounds, engine,
                   calibration_result, tmp, test_data, averages, app, poi>>

\* lines 212-213, after the loop
ReportAverages ==
    /\ pc = "estimate"
    /\ It > Len(test_data)
    /\ averages' =
          [avg_error_pixels |->
              Div(accumulate(errors_pixels, Num(0)), Num(Len(errors_pixels))),
           avg_error_cm |->
              Div(accumulate(errors_cm, Num(0)), Num(Len(errors_cm)))]
    /\ pc' = "done"
    /\ UNCHANGED <<parameters, initial_values, bounds, engine,
                   calibration_result, tmp, test_data, It, errors_pixels,
                   errors_cm, estimates, estimate_calls, app, poi>>

Next ==
    \/ CalibrateStart
    \/ SearchStep
    \/ SearchConverges
    \/ CalibrateReturn
    \/ Adapt
    \/ ApplyFitted
    \/ ApplyFault
    \/ EstimateSample
    \/ ReportAverages

Spec == Init /\ [][Next]_vars

----------------------------------------------------------------------------
(* Properties of run_onecamera, checked under Spec                         *)

AfterCalibrate == pc \in {"calibrated", "adapted", "estimate", "done", "fault"}

C2_PointerStaysValid ==
    pc = "adapted" =>
        /\ ~tmp.allocated
        /\ tmp.live
        /\ ~MayFault(tmp)
        /\ \A i \in 1..6 : RowViews(tmp, i) = {calibration_result[i]}

\* C4: when the search spent its iteration budget without meeting the
\* tolerance, the caller holds, with the best candidate, a status that says
\* so.
C4_NonConvergenceVisible ==
    (AfterCalibrate /\ ~engine.converged) =>
        calibration_status = "not_converged"

GeometricFailure(i) == estimate_calls[i].result.visual_axis[3].n = 0

GoodSamples == {i \in 1..Len(estimate_calls) : ~GeometricFailure(i)}

\* C7: a sample whose estimate is a geometric failure contributes no value to
\* errors_pixels or errors_cm, and the averages reported are those of the
\* remaining samples (finite when there is one).
C7_FailedSamplesSkipped ==
    /\ Len(errors_pixels) = Cardinality(GoodSamples)
    /\ Len(errors_cm) = Cardinality(GoodSamples)
    /\ \A i \in 1..Len(errors_pixels) : IsFinite(errors_pixels[i])
    /\ \A i \in 1..Len(errors_cm) : IsFinite(errors_cm[i])
    /\ (pc = "done" /\ GoodSamples # {}) =>
          /\ IsFinite(averages.avg_error_pixels)
          /\ IsFinite(averages.avg_error_cm)

\* the initial bundle with the six fitted values written into it
FittedBundle ==
    [parameters_onecamera EXCEPT
        !.alpha = calibration_result[1][1],
        !.beta = calibration_result[2][1],
        !.R = calibration_result[3][1],
        !.K = calibration_result[4][1],
        !.cameras[1].angle_y = calibration_result[5][1],
        !.cameras[1].angle_z = calibration_result[6][1],
        !.cameras[1].rotation =
            rotation_matrix_of(parameters_onecamera.cameras[1].angle_x,
                               calibration_result[5][1],
                               calibration_result[6][1])]

\* C8: after calibrate has returned the fitted values are applied to the
\* bundle, then the estimator is invoked once per test sample in input
\* order, each time with the fitted bundle; at the end one error is recorded
\* per test sample.
C8_FittedBundleEvaluated ==
    /\ pc \in {"estimate", "done"} => parameters = FittedBundle
    /\ estimate_calls # <<>> => pc \in {"estimate", "done"}
    /\ Len(estimate_calls) = It - 1
    /\ \A i \in 1..Len(estimate_calls) :
          /\ estimate_calls[i].data_in = test_data[i].first
          /\ estimate_calls[i].parameters = FittedBundle
    /\ pc = "done" =>
          /\ Len(estimate_calls) = Len(test_data)
          /\ Len(errors_pixels) = Len(test_data)
          /\ Len(errors_cm) = Len(test_data)

----------------------------------------------------------------------------
(* Properties of six_variable_calibration_applicator, checked under        *)
(* SpecApplicator                                                          *)

\* the array has the six rows of one scalar that the applicator reads
ShapeMatches(rows) == Len(rows) = 6 /\ \A i \in 1..6 : Len(rows[i]) = 1

\* every read of the applicator is inside live storage
ReadsLive(p) ==
    p.live /\ Len(p.rows) >= 6 /\ \A i \in 1..6 : Len(p.rows[i]) >= 1

\* C3: a variable array whose number of rows, or whose row length, is not
\* what the applicator writes is rejected by a shape check: the call neither
\* ignores the surplus nor reads a row that does not exist.
C3_MismatchRejected ==
    (app.pc \in {"returned", "fault"} /\ ~ShapeMatches(app.variables.rows)) =>
        app.pc = "rejected"

\* C6: the bundle returned has alpha, beta, R, K and the y and z angles of
\* cameras[0] replaced by variables[0][0] .. variables[5][0], in that order,
\* and every other field as in the bundle passed; the caller's bundle is as
\* it was before the call.
C6_ApplicatorFrame ==
    (app.pc = "returned" /\ ReadsLive(app.variables)) =>
        LET r == app.result
            b == app.base
            v == app.variables.rows
        IN  /\ r.alpha = v[1][1]
            /\ r.beta = v[2][1]
            /\ r.R = v[3][1]
            /\ r.K = v[4][1]
            /\ r.cameras[1].angle_y = v[5][1]
            /\ r.cameras[1].angle_z = v[6][1]
            /\ r.n1 = b.n1 /\ r.n2 = b.n2 /\ r.D = b.D
            /\ r.light_positions = b.light_positions
            /\ r.distance_to_camera_estimate = b.distance_to_camera_estimate
            /\ Len(r.cameras) = Len(b.cameras)
            /\ r.cameras[1].angle_x = b.cameras[1].angle_x
            /\ r.cameras[1].position = b.cameras[1].position
            /\ r.cameras[1].principal_point_x = b.cameras[1].principal_point_x
            /\ r.cameras[1].principal_point_y = b.cameras[1].principal_point_y
            /\ r.cameras[1].pixel_size_cm_x = b.cameras[1].pixel_size_cm_x
            /\ r.cameras[1].pixel_size_cm_y = b.cameras[1].pixel_size_cm_y
            /\ r.cameras[1].effective_focal_length_cm =
                  b.cameras[1].effective_focal_length_cm
            /\ r.cameras[1].rotation =
                  rotation_matrix_of(b.cameras[1].angle_x, v[5][1], v[6][1])
            /\ \A i \in 2..Len(b.cameras) : r.cameras[i] = b.cameras[i]
            /\ app.params = b

\* the applicator has returned from a call on a bundle of two cameras with
\* variables that change all six fields
C6_Witness ==
    /\ app.pc = "returned"
    /\ ReadsLive(app.variables)
    /\ Len(app.base.cameras) = 2
    /\ app.result.alpha # app.base.alpha
    /\ app.result.beta # app.base.beta
    /\ app.result.R # app.base.R
    /\ app.result.K # app.base.K
    /\ app.result.cameras[1].angle_y # app.base.cameras[1].angle_y
    /\ app.result.cameras[1].angle_z # app.base.cameras[1].angle_z
    /\ app.base.cameras[1].angle_x # Num(0)

\* C10: applied to a bundle with the initial values built from that same
\* bundle, the applicator returns a bundle equal to it in every field,
\* camera 0's x angle and rotation matrix included.
C10_IdentityOnInitialValues ==
    (/\ app.pc = "returned"
     /\ app.variables.live
     /\ app.variables.rows = initial_values_of(app.base)) =>
        app.result = app.base

\* the applicator has returned from such a call on a bundle whose camera 0
\* has three different non-zero angles
C10_Witness ==
    /\ app.pc = "returned"
    /\ app.variables.live
    /\ app.variables.rows = initial_values_of(app.base)
    /\ app.base.cameras[1].angle_x # Num(0)
    /\ app.base.cameras[1].angle_y # Num(0)
    /\ app.base.cameras[1].angle_y # app.base.cameras[1].angle_z

----------------------------------------------------------------------------
(* Properties of calculate_point_of_interest, checked under SpecPoi        *)

Cross(a, b) ==
    << Sub(Mul(a[2], b[3]), Mul(a[3], b[2])),
       Sub(Mul(a[3], b[1]), Mul(a[1], b[3])),
       Sub(Mul(a[1], b[2]), Mul(a[2], b[1])) >>

\* C9: when v[2] # 0 the point returned lies on the gaze line through the
\* cornea center along v and has the z coordinate z_shift; when v[2] = 0 the
\* call reports the degenerate case instead of returning a point computed
\* from a division by zero.
C9_PointOnPlaneOrReported ==
    poi.pc = "returned" =>
        IF poi.visual_axis_unit_vector[3].n # 0
        THEN /\ poi.outcome = "point"
             /\ poi.result[3] = poi.z_shift
             /\ Cross(VecSub(poi.result, poi.cornea_center),
                      poi.visual_axis_unit_vector)
                   = <<Num(0), Num(0), Num(0)>>
        ELSE poi.outcome = "degenerate"

====
